---- MODULE Spec2Model ----
(***************************************************************************)
(* Model of prepper.py: the roughening engine (roughen, roughen_h2d,       *)
(* roughen_d2M, roughen_M2Y, generic_roughen), the loader normalise and    *)
(* the batch loop of __main__.                                             *)
(*                                                                         *)
(* Python lists are objects: roughen binds several names to the same list  *)
(* and pads with the in-place operator +=, so the engine is modelled over  *)
(* a small heap of list objects addressed by reference names.              *)
(***************************************************************************)
EXTENDS Integers, Sequences, FiniteSets, TLC

\* a call of roughen: its arguments (the caller's objects), their value
\* before the first call, and what each call returned
VARIABLES periodicity, dates, values, dates0, values0, results

\* the batch loop and the call of normalise it is in: the position in the
\* listing, the control point, the file being read (name, periodicity code,
\* number of data rows, date column and number of tagged columns as they
\* are on disk),
\* normalise's locals raw_data, object_dates, the column being processed and
\* its table (new_data), the output files the call has written, the
\* exception that ended the run, and whether a user interrupt has arrived
VARIABLES fileIdx, pc, current, raw_data, object_dates, colIdx, new_data,
          written, error, interrupted

rvars == <<periodicity, dates, values, dates0, values0, results>>

bvars == <<fileIdx, pc, current, raw_data, object_dates, colIdx, new_data,
           written, error, interrupted>>

vars == <<periodicity, dates, values, dates0, values0, results,
          fileIdx, pc, current, raw_data, object_dates, colIdx, new_data,
          written, error, interrupted>>

----------------------------------------------------------------------------
(* Bounds of the model *)

MaxLen == 3

MaxRows == 3

----------------------------------------------------------------------------
(* Values of the model *)

\* the four periodicity codes of roughen's docstring
Codes == {"h", "d", "M", "Y"}

\* codes handed to roughen: the four recognised ones and an unrecognised one
PeriodicityInputs == Codes \cup {"x"}

\* datetime objects: year, month, day, hour (normalise zeroes minute, second
\* and microsecond, so isoformat always ends in :00:00)
Datetime(y, m, d, h) == [year |-> y, month |-> m, day |-> d, hour |-> h]

DatetimeSpace == [year : {2021, 2022}, month : {1, 2}, day : {1, 2}, hour : {0, 5}]

\* timestamps the input series are drawn from: two hours of one day, two days
\* of one month, two months of one year, two years
InputDatetimes ==
    { Datetime(2021, 1, 1, 0), Datetime(2021, 1, 1, 5), Datetime(2021, 1, 2, 0),
      Datetime(2021, 2, 1, 0), Datetime(2022, 1, 1, 0) }

InputValues == {"1.00", "2.00"}

----------------------------------------------------------------------------
(* String rendering of datetime objects *)

Pad2(n) == IF n < 10 THEN "0" \o ToString(n) ELSE ToString(n)

\* datetime.isoformat() of a datetime with zero minute, second, microsecond
isoformat(o) ==
    ToString(o.year) \o "-" \o Pad2(o.month) \o "-" \o Pad2(o.day)
        \o "T" \o Pad2(o.hour) \o ":00:00"

strftime_h(o) ==
    ToString(o.year) \o "-" \o Pad2(o.month) \o "-" \o Pad2(o.day)
        \o "T" \o Pad2(o.hour)

strftime_d(o) == ToString(o.year) \o "-" \o Pad2(o.month) \o "-" \o Pad2(o.day)

strftime_M(o) == ToString(o.year) \o "-" \o Pad2(o.month)

strftime_Y(o) == ToString(o.year)

replace_hour(o) == [o EXCEPT !.hour = 0]

replace_day(o) == [o EXCEPT !.day = 1]

replace_month(o) == [o EXCEPT !.month = 1]

\* the strings of every datetime of the space: strftime at the four
\* resolutions and isoformat (the table is built once: @@ makes it a
\* function given by its values)
RenderTable ==
    [o \in DatetimeSpace |->
        [h |-> strftime_h(o), d |-> strftime_d(o), M |-> strftime_M(o),
         Y |-> strftime_Y(o), iso |-> isoformat(o)]] @@ <<>>

\* datetime.fromisoformat on a string isoformat produced: the datetime that
\* reads so
fromisoformat(s) == CHOOSE o \in DatetimeSpace : RenderTable[o].iso = s

\* [o.strftime(fmt) for o in s]
Render(s, slot) == [i \in 1..Len(s) |-> RenderTable[s[i]][slot]]

----------------------------------------------------------------------------
(* generic_roughen and the three truncations *)

Min2(a, b) == IF a < b THEN a ELSE b

\* position of key k in a dict held as a sequence of <<key, value>> items in
\* insertion order; 0 when absent
DictIndex(dict, k) ==
    IF \E i \in 1..Len(dict) : dict[i][1] = k
    THEN CHOOSE i \in 1..Len(dict) : dict[i][1] = k
    ELSE 0

\* dict.setdefault(k, v): a known key keeps its value
DictPutKeepFirst(dict, k, v) ==
    IF DictIndex(dict, k) = 0 THEN Append(dict, <<k, v>>) ELSE dict

\* dict[k] = v: a new key is appended, a known key keeps its position and
\* takes the new value
DictPut(dict, k, v) ==
    IF DictIndex(dict, k) = 0
    THEN Append(dict, <<k, v>>)
    ELSE [dict EXCEPT ![DictIndex(dict, k)] = <<k, v>>]

RECURSIVE DictComp(_, _, _, _)
\* {d: v for d, v in zip(dates, values)}, from pair i on
DictComp(ds, vs, i, dict) ==
    IF i > Min2(Len(ds), Len(vs))
    THEN dict
    ELSE DictComp(ds, vs, i + 1, DictPut(dict, ds[i], vs[i]))

generic_roughen(ds, vs) ==
    LET combined == DictComp(ds, vs, 1, <<>>)
    IN  << [i \in 1..Len(combined) |-> fromisoformat(combined[i][1])],
           [i \in 1..Len(combined) |-> combined[i][2]] >>

roughen_h2d(ds, vs) ==
    generic_roughen([i \in 1..Len(ds) |-> RenderTable[replace_hour(ds[i])].iso], vs)

roughen_d2M(ds, vs) ==
    generic_roughen([i \in 1..Len(ds) |-> RenderTable[replace_day(ds[i])].iso], vs)

roughen_M2Y(ds, vs) ==
    generic_roughen([i \in 1..Len(ds) |-> RenderTable[replace_month(ds[i])].iso], vs)

----------------------------------------------------------------------------
(* roughen *)

\* a list object: kind tells datetime items from string items
Lst(kind, items) == [kind |-> kind, items |-> items]

\* list == list: equal lengths and equal items; a datetime never equals ''
PyListEq(a, b) ==
    /\ Len(a.items) = Len(b.items)
    /\ \/ Len(a.items) = 0
       \/ (a.kind = b.kind /\ a.items = b.items)

deepcopy(ds) == [i \in 1..Len(ds) |-> ds[i]]

Sentinels(n) == [i \in 1..n |-> ""]

\* the hourly test as an else branch of the three others
SlotIsDefaultHourly(p, code) == p = code \/ (code = "h" /\ p \notin {"d", "M", "Y"})

\* the monthly test never met
SlotIsNoMonth(p, code) == p = code /\ code # "M"

\* periodicity == "h" / "d" / "M" / "Y"
SlotIs(p, code) == p = code

\* row_amount of the padding statements, len(x) left out
PadCountAll(row_amount, len) == row_amount

\* no padding
PadCountNone(row_amount, len) == 0

\* (row_amount - len(x)) of the padding statements
PadCount(row_amount, len) == row_amount - len

\* names of the list objects a call creates for a slot
NewList ==
    [ h |-> [dates |-> "h_dates", values |-> "h_values", str |-> "h_str"],
      d |-> [dates |-> "d_dates", values |-> "d_values", str |-> "d_str"],
      M |-> [dates |-> "M_dates", values |-> "M_values", str |-> "M_str"],
      Y |-> [dates |-> "Y_dates", values |-> "Y_values", str |-> "Y_str"] ]

\* lines 31-33: the frame of a call: the heap of list objects, and the object
\* each of dates_h .. values_Y is bound to (dates[slot], values[slot])
roughen_enter(p, dates_arg, values_arg) ==
    [ p          |-> p,
      row_amount |-> Len(dates_arg),
      heap       |-> [ dates_arg    |-> Lst("dt", dates_arg),
                       values       |-> Lst("str", values_arg),
                       dates        |-> Lst("dt", deepcopy(dates_arg)),
                       empty_column |-> Lst("str", Sentinels(Len(dates_arg))) ],
      dates      |-> <<>>,
      values     |-> <<>>,
      series     |-> <<>>,
      derived    |-> {} ]

\* dates_X, values_X = dates, values
BindNative(f, slot) ==
    [f EXCEPT !.dates = @ @@ (slot :> "dates"), !.values = @ @@ (slot :> "values")]

\* dates_X = values_X = empty_column
BindEmpty(f, slot) ==
    [f EXCEPT !.dates = @ @@ (slot :> "empty_column"),
              !.values = @ @@ (slot :> "empty_column")]

\* dates_X, values_X = roughen_F2X(dates_F, values_F)
BindDerived(f, slot, pair) ==
    [f EXCEPT !.heap = @ @@ (NewList[slot].dates :> Lst("dt", pair[1])
                             @@ NewList[slot].values :> Lst("str", pair[2])),
              !.dates = @ @@ (slot :> NewList[slot].dates),
              !.values = @ @@ (slot :> NewList[slot].values),
              !.derived = @ \cup {slot}]

\* lines 36-39: determine hourly values
roughen_hourly(f) ==
    IF SlotIs(f.p, "h") THEN BindNative(f, "h") ELSE BindEmpty(f, "h")

\* lines 42-47: determine daily values
roughen_daily(f) ==
    IF SlotIs(f.p, "d")
    THEN BindNative(f, "d")
    ELSE IF PyListEq(f.heap[f.dates.h], f.heap["empty_column"])
    THEN BindEmpty(f, "d")
    ELSE BindDerived(f, "d", roughen_h2d(f.heap[f.dates.h].items,
                                         f.heap[f.values.h].items))

\* lines 50-55: determine monthly values
roughen_monthly(f) ==
    IF SlotIs(f.p, "M")
    THEN BindNative(f, "M")
    ELSE IF PyListEq(f.heap[f.dates.d], f.heap["empty_column"])
    THEN BindEmpty(f, "M")
    ELSE BindDerived(f, "M", roughen_d2M(f.heap[f.dates.d].items,
                                         f.heap[f.values.d].items))

\* lines 58-63: determine yearly values
roughen_yearly(f) ==
    IF SlotIs(f.p, "Y")
    THEN BindNative(f, "Y")
    ELSE IF PyListEq(f.heap[f.dates.M], f.heap["empty_column"])
    THEN BindEmpty(f, "Y")
    ELSE BindDerived(f, "Y", roughen_M2Y(f.heap[f.dates.M].items,
                                         f.heap[f.values.M].items))

\* one of lines 66-73: if dates_X is not empty_column, bind dates_X to a new
\* list of the rendered strings; series keeps the datetime list it came from
FormatSlot(f, slot) ==
    IF f.dates[slot] # "empty_column"
    THEN [f EXCEPT !.heap = @ @@ (NewList[slot].str :>
                                    Lst("str", Render(f.heap[f.dates[slot]].items, slot))),
                   !.dates[slot] = NewList[slot].str,
                   !.series = @ @@ (slot :> f.heap[f.dates[slot]].items)]
    ELSE [f EXCEPT !.series = @ @@ (slot :> <<>>)]

\* lines 66-73: convert datetime objects to strings
roughen_format(f) ==
    FormatSlot(FormatSlot(FormatSlot(FormatSlot(f, "h"), "d"), "M"), "Y")

\* x += n * ['']: extends the object x is bound to, in place
PadInPlace(f, ref) ==
    [f EXCEPT !.heap[ref].items = @ \o Sentinels(PadCount(f.row_amount, Len(@)))]

\* lines 76-77, 78-79, 80-81: pad dates_X, then values_X
PadSlot(f, slot) == PadInPlace(PadInPlace(f, f.dates[slot]), f.values[slot])

\* lines 76-81: pad all values (h is automatically correct)
roughen_pad(f) == PadSlot(PadSlot(PadSlot(f, "d"), "M"), "Y")

\* lines 83-86: the returned tuple, with what the model observes of the call:
\* the datetime series each slot was rendered from (<<>> for a slot bound to
\* empty_column), the slots that were derived, and the caller's argument
\* objects after the call
roughen_return(f) ==
    [ outcome |-> "return",
      ret |-> << f.heap[f.dates.h].items, f.heap[f.values.h].items,
                 f.heap[f.dates.d].items, f.heap[f.values.d].items,
                 f.heap[f.dates.M].items, f.heap[f.values.M].items,
                 f.heap[f.dates.Y].items, f.heap[f.values.Y].items >>,
      series     |-> f.series,
      derived    |-> f.derived,
      dates_arg  |-> f.heap["dates_arg"].items,
      values_arg |-> f.heap["values"].items ]

roughen(p, dates_arg, values_arg) ==
    roughen_return(roughen_pad(roughen_format(roughen_yearly(roughen_monthly(
        roughen_daily(roughen_hourly(roughen_enter(p, dates_arg, values_arg))))))))

----------------------------------------------------------------------------
(* The input directory and the text of its files *)

\* os.listdir(PATH_FILES_IN)
Listing == << "T_a.csv", "notes.txt", "T_b.csv" >>

\* file names by their parts, for startswith and endswith
FileNameTable ==
    { [text |-> pre \o stem \o ext, startsT |-> pre = "T_", endsCsv |-> ext = ".csv"] :
        pre \in {"T_", ""}, stem \in {"a", "b", "notes"}, ext \in {".csv", ".txt"} }

\* file.startswith("T_") and file.endswith(".csv")
Eligible(file) ==
    \E e \in FileNameTable : e.text = file /\ e.startsT /\ e.endsCsv

Tags == << "a", "b" >>

\* column headers by their parts: h[:2] == "T_", h[:4] == "TAG_",
\* h.split("_")[-1] and h[4:]
HeaderTable ==
    { [text |-> "T_t_" \o code, isT |-> TRUE, isTag |-> FALSE, last |-> code, tail |-> ""] :
        code \in {"h", "d"} }
    \cup
    { [text |-> "TAG_" \o Tags[i], isT |-> FALSE, isTag |-> TRUE, last |-> Tags[i],
       tail |-> Tags[i]] : i \in 1..Len(Tags) }

Header(h) == CHOOSE e \in HeaderTable : e.text = h

DateLabels == { e.text : e \in { e \in HeaderTable : e.isT } }

\* cells of the date column: a full ISO timestamp, a year, a year-month, a
\* string that is none of them
DateCells == { "2021-01-02T05:30:00", "2021", "2021-02", "bogus" }

\* cells of a tagged column: empty, a number with a unit
ValueCells == { "", "1.5 kWh" }

\* full ISO timestamps with the datetime fromisoformat gives, minute kept
IsoCellTable ==
    { [text |-> ToString(o.year) \o "-" \o Pad2(o.month) \o "-" \o Pad2(o.day)
                  \o "T" \o Pad2(o.hour) \o ":" \o Pad2(mi) \o ":00",
       datetime |-> o, minute |-> mi] :
        o \in DatetimeSpace, mi \in {0, 30} }

\* 4-character years and 7-character year-months, with their numbers
YearTable == { [text |-> ToString(y), year |-> y] : y \in {2021, 2022} }

YearMonthTable ==
    { [text |-> ToString(y) \o "-" \o Pad2(m), year |-> y, month |-> m] :
        y \in {2021, 2022}, m \in 1..12 }

\* numbers as hundredths, with the texts float() reads them from
Hundredths == { 0, 150, 200 }

Fixed2(c) == ToString(c \div 100) \o "." \o Pad2(c % 100)

ShortForm(c) ==
    IF c % 100 = 0 THEN ToString(c \div 100)
    ELSE IF c % 10 = 0 THEN ToString(c \div 100) \o "." \o ToString((c % 100) \div 10)
    ELSE Fixed2(c)

FloatTable ==
    { [text |-> ShortForm(c), number |-> c] : c \in Hundredths }
    \cup { [text |-> Fixed2(c), number |-> c] : c \in Hundredths }

Units == { "kWh" }

\* texts of value cells by their parts: x.split(' ', 1) and x[-1].isnumeric()
CellTable ==
    { [text |-> e.text, split |-> << e.text >>, lastNumeric |-> TRUE] : e \in FloatTable }
    \cup
    { [text |-> e.text \o " " \o u, split |-> << e.text, u >>, lastNumeric |-> FALSE] :
        e \in FloatTable, u \in Units }
    \cup
    { [text |-> "", split |-> << "" >>, lastNumeric |-> FALSE] }

Cell(x) == CHOOSE e \in CellTable : e.text = x

\* files as on disk: a header row, then data rows of a date cell and one cell
\* per tagged column
FilesOfShape(k, n) ==
    [ datelabel : DateLabels,
      tags      : { SubSeq(Tags, 1, k) },
      rows      : [1..n -> [date : DateCells, cells : [1..k -> ValueCells]]] ]

Files == UNION { FilesOfShape(k, n) : k \in 1..Len(Tags), n \in 0..MaxRows }

----------------------------------------------------------------------------
(* normalise *)

\* the dict a DictReader row is: header -> cell
RowDict(file, r) ==
    << [header |-> file.datelabel, cell |-> file.rows[r].date] >>
    \o [i \in 1..Len(file.tags) |->
          [header |-> "TAG_" \o file.tags[i], cell |-> file.rows[r].cells[i]]]

\* lines 112-126: raw_data as <<header, column>> items in header order, None
\* when the reader yields no row. The reader has consumed the header row; the
\* loop takes the headers from the first row it yields and continues, and
\* appends the cells of every later row
ReadRawData(file) ==
    IF Len(file.rows) = 0
    THEN [none |-> TRUE, items |-> <<>>]
    ELSE LET keys    == RowDict(file, 1)
             IsKept(kv) == Header(kv.header).isT \/ Header(kv.header).isTag
             headers == SelectSeq(keys, IsKept)
             appended == 2..Len(file.rows)
         IN  [none  |-> FALSE,
              items |-> [h \in 1..Len(headers) |->
                           [header |-> headers[h].header,
                            column |-> [j \in 1..Cardinality(appended) |->
                                          LET rd == RowDict(file, j + 1)
                                              at == CHOOSE q \in 1..Len(rd) :
                                                      rd[q].header = headers[h].header
                                          IN  rd[at].cell]]]]

\* lines 135-146: one cell of the date column: the datetime appended, or the
\* ValueError raised
ParseDate(d) ==
    IF \E e \in IsoCellTable : e.text = d
    THEN [error |-> "",
          datetime |-> (CHOOSE e \in IsoCellTable : e.text = d).datetime]
    ELSE IF Len(d) = 4
    THEN IF \E e \in YearTable : e.text = d
         THEN [error |-> "",
               datetime |-> Datetime((CHOOSE e \in YearTable : e.text = d).year, 1, 1, 0)]
         ELSE [error |-> "ValueError", datetime |-> <<>>]
    ELSE IF Len(d) = 7
    THEN IF \E e \in YearMonthTable : e.text = d
         THEN LET e == CHOOSE e \in YearMonthTable : e.text = d
              IN  [error |-> "", datetime |-> Datetime(e.year, e.month, 1, 0)]
         ELSE [error |-> "ValueError", datetime |-> <<>>]
    ELSE [error |-> "ValueError", datetime |-> <<>>]

\* lines 130-148: the date column as datetime objects, or the exception
\* raised on the way
ExtractTime(rd) ==
    IF rd.none
    THEN [error |-> "AttributeError", object_dates |-> <<>>]
    ELSE LET IsDate(item) == Header(item.header).isT
             labelled == SelectSeq(rd.items, IsDate)
         IN  IF Len(labelled) = 0
             THEN [error |-> "IndexError", object_dates |-> <<>>]
             ELSE LET cells  == labelled[1].column
                      parsed == [i \in 1..Len(cells) |-> ParseDate(cells[i])]
                  IN  IF \E i \in 1..Len(cells) : parsed[i].error # ""
                      THEN [error |-> "ValueError", object_dates |-> <<>>]
                      ELSE [error |-> "",
                            object_dates |-> [i \in 1..Len(cells) |-> parsed[i].datetime]]

\* datelabel.split("_")[-1] of the first T_ header
PeriodicityOf(rd) ==
    LET IsDate(item) == Header(item.header).isT
    IN  Header(SelectSeq(rd.items, IsDate)[1].header).last

IsFloat(x) == \E e \in FloatTable : e.text = x

\* line 168: '0' if x == '' else f"{float(x):.2f}"
Coerce(x) ==
    IF x = "" THEN "0"
    ELSE Fixed2((CHOOSE e \in FloatTable : e.text = x).number)

Pad6(n) ==
    IF n < 10 THEN "00000" \o ToString(n)
    ELSE IF n < 100 THEN "0000" \o ToString(n)
    ELSE "000" \o ToString(n)

\* lines 175-177: zip(*new_data_cols): one row per position all eight
\* columns have
Zip(cols) ==
    LET shortest == CHOOSE n \in { Len(cols[k]) : k \in 1..8 } :
                       \A k \in 1..8 : n <= Len(cols[k])
    IN  [i \in 1..shortest |-> [k \in 1..8 |-> cols[k][i]]]

\* lines 155-177: the table of one tagged column and the name of its file, or
\* the exception raised on the way
ColumnTable(p, dts, item) ==
    LET column == item.column
    IN  IF Len(column) < 2
        THEN [error |-> "IndexError"]
        ELSE
        LET sniffed  == Len(column[2]) > 0 /\ ~Cell(column[2]).lastNumeric
            tokens   == Cell(column[2]).split
            unit     == IF sniffed /\ Len(tokens) = 2 THEN tokens[2] ELSE "_"
            stripped == IF sniffed
                        THEN [i \in 1..Len(column) |-> Cell(column[i]).split[1]]
                        ELSE column
        IN  IF sniffed /\ (Len(tokens) < 2 \/ ~IsFloat(tokens[1]))
            THEN [error |-> "ValueError"]
            ELSE IF \E i \in 1..Len(stripped) : stripped[i] # "" /\ ~IsFloat(stripped[i])
            THEN [error |-> "ValueError"]
            ELSE
            [error  |-> "",
             name   |-> Pad6(Len(dts)) \o "__" \o Header(item.header).tail \o ".csv",
             header |-> << "h_date", "h_" \o unit, "d_date", "d_" \o unit,
                           "M_date", "M_" \o unit, "Y_date", "Y_" \o unit >>,
             body   |-> Zip(roughen(p, dts,
                                    [i \in 1..Len(stripped) |-> Coerce(stripped[i])]).ret)]

\* position of the next TAG_ item of raw_data at or after i; past the end
\* when there is none
RECURSIVE NextTagged(_, _)
NextTagged(rd, i) ==
    IF i > Len(rd.items) THEN i
    ELSE IF Header(rd.items[i].header).isTag THEN i
    ELSE NextTagged(rd, i + 1)

NoFile == [name |-> "", periodicity |-> "", nrows |-> 0, ncols |-> 0, datecells |-> <<>>]

NoData == [none |-> TRUE, items |-> <<>>]

\* normalise's locals are gone once the call is left
LeaveNormalise ==
    /\ raw_data' = NoData
    /\ object_dates' = <<>>
    /\ colIdx' = 0
    /\ new_data' = <<>>

----------------------------------------------------------------------------
(* Calls of roughen on bounded inputs *)

InitRoughen ==
    /\ periodicity \in PeriodicityInputs
    /\ \E n \in 0..MaxLen :
          /\ dates \in [1..n -> InputDatetimes]
          /\ values \in [1..n -> InputValues]
    /\ dates0 = dates
    /\ values0 = values
    /\ results = <<>>
    /\ fileIdx = 1
    /\ pc = "for"
    /\ current = NoFile
    /\ raw_data = NoData
    /\ object_dates = <<>>
    /\ colIdx = 0
    /\ new_data = <<>>
    /\ written = <<>>
    /\ error = ""
    /\ interrupted = FALSE

\* roughen(periodicity, dates, values), then once more with the same
\* argument objects
CallRoughen ==
    /\ Len(results) < 2
    /\ \E r \in {roughen(periodicity, dates, values)} :
           /\ results' = Append(results, r)
           /\ dates' = r.dates_arg
           /\ values' = r.values_arg
    /\ UNCHANGED <<periodicity, dates0, values0>>
    /\ UNCHANGED bvars

NextRoughen == CallRoughen

SpecRoughen == InitRoughen /\ [][NextRoughen]_vars

----------------------------------------------------------------------------
(* The batch loop of __main__ and the steps of normalise *)

InitBatch ==
    /\ periodicity = "d"
    /\ dates = <<>>
    /\ values = <<>>
    /\ dates0 = <<>>
    /\ values0 = <<>>
    /\ results = <<>>
    /\ fileIdx = 1
    /\ pc = "for"
    /\ current = NoFile
    /\ raw_data = NoData
    /\ object_dates = <<>>
    /\ colIdx = 0
    /\ new_data = <<>>
    /\ written = <<>>
    /\ error = ""
    /\ interrupted = FALSE

\* an exception other than KeyboardInterrupt leaves normalise and the loop
Raise(e) ==
    /\ pc' = "crashed"
    /\ error' = e
    /\ LeaveNormalise

\* line 187: the listing is exhausted
LoopEnd ==
    /\ pc = "for"
    /\ fileIdx > Len(Listing)
    /\ pc' = "exit"
    /\ UNCHANGED <<fileIdx, current, raw_data, object_dates, colIdx, new_data,
                   written, error, interrupted>>
    /\ UNCHANGED rvars

\* line 188: a name that does not start with T_ or end with .csv
SkipFile ==
    /\ pc = "for"
    /\ fileIdx <= Len(Listing)
    /\ ~Eligible(Listing[fileIdx])
    /\ fileIdx' = fileIdx + 1
    /\ UNCHANGED <<pc, current, raw_data, object_dates, colIdx, new_data,
                   written, error, interrupted>>
    /\ UNCHANGED rvars

\* lines 188-191: normalise(file) is entered
StartFile ==
    /\ pc = "for"
    /\ fileIdx <= Len(Listing)
    /\ Eligible(Listing[fileIdx])
    /\ pc' = "open"
    /\ current' = [NoFile EXCEPT !.name = Listing[fileIdx]]
    /\ written' = <<>>
    /\ UNCHANGED <<fileIdx, raw_data, object_dates, colIdx, new_data, error, interrupted>>
    /\ UNCHANGED rvars

\* lines 112-126: the file is read
ReadFile ==
    /\ pc = "open"
    /\ \E file \in Files :
          /\ raw_data' = ReadRawData(file)
          /\ current' = [current EXCEPT
                            !.periodicity = Header(file.datelabel).last,
                            !.nrows = Len(file.rows),
                            !.ncols = Len(file.tags),
                            !.datecells = [r \in 1..Len(file.rows) |-> file.rows[r].date]]
    /\ pc' = "dates"
    /\ UNCHANGED <<fileIdx, object_dates, colIdx, new_data, written, error, interrupted>>
    /\ UNCHANGED rvars

\* lines 130-148: extract time
ParseDates ==
    /\ pc = "dates"
    /\ \E r \in {ExtractTime(raw_data)} :
           IF r.error # ""
           THEN Raise(r.error) /\ UNCHANGED <<fileIdx, current, written, interrupted>>
           ELSE /\ object_dates' = r.object_dates
                /\ colIdx' = 1
                /\ pc' = "column"
                /\ UNCHANGED <<fileIdx, current, raw_data, new_data, written, error,
                               interrupted>>
    /\ UNCHANGED rvars

\* lines 151-177: the next tagged column is converted and roughened
ComputeColumn ==
    /\ pc = "column"
    /\ NextTagged(raw_data, colIdx) <= Len(raw_data.items)
    /\ \E i \in {NextTagged(raw_data, colIdx)},
          t \in {ColumnTable(PeriodicityOf(raw_data), object_dates,
                             raw_data.items[NextTagged(raw_data, colIdx)])} :
           IF t.error # ""
           THEN Raise(t.error) /\ UNCHANGED <<fileIdx, current, written, interrupted>>
           ELSE /\ new_data' = t
                /\ colIdx' = i
                /\ pc' = "write"
                /\ UNCHANGED <<fileIdx, current, raw_data, object_dates, written, error,
                               interrupted>>
    /\ UNCHANGED rvars

\* line 179: the column's file is opened for writing, which creates it empty
OpenOutput ==
    /\ pc = "write"
    /\ written' = Append(written, [name |-> new_data.name, closed |-> FALSE, rows |-> <<>>])
    /\ pc' = "rows"
    /\ UNCHANGED <<fileIdx, current, raw_data, object_dates, colIdx, new_data, error,
                   interrupted>>
    /\ UNCHANGED rvars

\* lines 181-183: the header row and the body rows are written and the file
\* is closed
WriteRows ==
    /\ pc = "rows"
    /\ written' = [written EXCEPT ![Len(written)] =
                      [@ EXCEPT !.rows = << new_data.header >> \o new_data.body,
                                !.closed = TRUE]]
    /\ new_data' = <<>>
    /\ colIdx' = colIdx + 1
    /\ pc' = "column"
    /\ UNCHANGED <<fileIdx, current, raw_data, object_dates, error, interrupted>>
    /\ UNCHANGED rvars

\* line 151: no column is left; normalise returns and the loop goes on
ReturnFromNormalise ==
    /\ pc = "column"
    /\ NextTagged(raw_data, colIdx) > Len(raw_data.items)
    /\ pc' = "for"
    /\ fileIdx' = fileIdx + 1
    /\ LeaveNormalise
    /\ UNCHANGED <<current, written, error, interrupted>>
    /\ UNCHANGED rvars

InNormalise == pc \in {"open", "dates", "column", "write", "rows"}

\* continue in place of break
KeyboardInterruptContinues(inTry) ==
    IF inTry THEN [pc |-> "for", advance |-> 1, error |-> ""]
    ELSE [pc |-> "crashed", advance |-> 0, error |-> "KeyboardInterrupt"]

\* lines 190-193: where a KeyboardInterrupt leads: raised inside the try it
\* is caught and break leaves the loop, no file being taken from the listing
\* any more; raised outside the try it ends the run
KeyboardInterruptLeadsTo(inTry) ==
    IF inTry THEN [pc |-> "stopped", advance |-> 0, error |-> ""]
    ELSE [pc |-> "crashed", advance |-> 0, error |-> "KeyboardInterrupt"]

\* a user interrupt arrives: KeyboardInterrupt is raised at the statement
\* being executed
Interrupt ==
    /\ ~interrupted
    /\ pc \in {"for", "open", "dates", "column", "write", "rows"}
    /\ interrupted' = TRUE
    /\ LET to == KeyboardInterruptLeadsTo(InNormalise)
       IN  /\ pc' = to.pc
           /\ error' = to.error
           /\ fileIdx' = fileIdx + to.advance
    /\ LeaveNormalise
    /\ UNCHANGED <<current, written>>
    /\ UNCHANGED rvars

Next ==
    \/ LoopEnd
    \/ SkipFile
    \/ StartFile
    \/ ReadFile
    \/ ParseDates
    \/ ComputeColumn
    \/ OpenOutput
    \/ WriteRows
    \/ ReturnFromNormalise
    \/ Interrupt

Spec == InitBatch /\ [][Next]_vars

----------------------------------------------------------------------------
(* Properties of roughen *)

Called == Len(results) >= 1

First == results[1]

\* position of a slot's dates in the returned tuple; its values follow
DatesAt == [h |-> 1, d |-> 3, M |-> 5, Y |-> 7]

SlotDates(r, slot) == r.ret[DatesAt[slot]]

SlotValues(r, slot) == r.ret[DatesAt[slot] + 1]

\* the slot a derived slot is derived from
Finer == [d |-> "h", M |-> "d", Y |-> "M"]

\* the truncation of the step that derives a slot
Truncate(slot, o) ==
    CASE slot = "d" -> [o EXCEPT !.hour = 0]
      [] slot = "M" -> [o EXCEPT !.day = 1]
      [] slot = "Y" -> [o EXCEPT !.month = 1]

\* the finer series of a derived slot, each timestamp truncated
Truncated(r, slot) ==
    [j \in 1..Len(r.series[Finer[slot]]) |-> Truncate(slot, r.series[Finer[slot]][j])]

\* rows of a series of keys that hold their key's first occurrence
FirstRows(t) == { j \in 1..Len(t) : \A k \in 1..(j - 1) : t[k] # t[j] }

\* the last row that holds the key of row j
LastRowOf(t, j) ==
    CHOOSE k \in j..Len(t) : t[k] = t[j] /\ \A m \in (k + 1)..Len(t) : t[m] # t[j]

\* a derived slot (its datetime series ds, its values vs) holds one row per
\* key of the truncated finer series t, in the order of the keys' first
\* occurrences, with the value (of the finer values fv) of the row Pick names
KeepsPerKey(t, ds, vs, fv, Pick(_, _)) ==
    /\ Len(ds) = Cardinality(FirstRows(t))
    /\ \A j \in FirstRows(t) :
          \E i \in 1..Len(ds) :
              /\ i = Cardinality({ k \in FirstRows(t) : k <= j })
              /\ ds[i] = t[j]
              /\ vs[i] = fv[Pick(t, j)]

FirstRowOf(t, j) == j

C2_PassThrough ==
    (Called /\ periodicity \in Codes) =>
        /\ SlotValues(First, periodicity) = values0
        /\ SlotDates(First, periodicity) =
               Render(dates0, periodicity)

\* a monthly series with a repeated timestamp has been passed through
C2_Witness ==
    /\ Called
    /\ periodicity = "M"
    /\ Len(dates0) = 3
    /\ dates0[1] = dates0[3]
    /\ values0[1] # values0[3]
    /\ Len(SlotDates(First, "M")) = 3

\* C3: all eight returned sequences have the length of the input, the derived
\* slots holding their real rows first and empty-string sentinels after them.
C3_RowCount ==
    (Called /\ periodicity \in Codes) =>
        /\ \A k \in 1..8 : Len(First.ret[k]) = Len(dates0)
        /\ \A slot \in Codes :
              \A i \in 1..Len(dates0) :
                  IF i <= Len(First.series[slot])
                  THEN SlotDates(First, slot)[i] # ""
                  ELSE SlotDates(First, slot)[i] = "" /\ SlotValues(First, slot)[i] = ""

\* three hourly rows of one day: the daily slot has one real row and two
\* sentinel rows
C3_Witness ==
    /\ Called
    /\ periodicity = "h"
    /\ Len(dates0) = 3
    /\ Len(First.series["d"]) = 1
    /\ SlotDates(First, "d")[3] = ""
    /\ Len(SlotDates(First, "Y")) = 3

\* C4 as stated: a call with a periodicity outside h, d, M, Y ends in an
\* error and returns nothing.
C4_UnknownFails ==
    (Called /\ periodicity \notin Codes) => First.outcome = "raise"

\* C4 amended: a call with a periodicity outside h, d, M, Y returns normally,
\* and all eight sequences consist of empty-string sentinels, one per input
\* row.
C4_UnknownAllEmpty ==
    (Called /\ periodicity \notin Codes) =>
        /\ First.outcome = "return"
        /\ \A k \in 1..8 : First.ret[k] = [i \in 1..Len(dates0) |-> ""]

\* a call with the code x on two rows has returned
C4_Witness ==
    /\ Called
    /\ periodicity = "x"
    /\ Len(dates0) = 2
    /\ First.outcome = "return"

\* C8: a call leaves the caller's dates and values as they were, and a second
\* call with the same argument objects returns what the first returned.
C8_Pure ==
    /\ Called => (dates = dates0 /\ values = values0)
    /\ Len(results) = 2 => results[2].ret = results[1].ret

\* the second call on a daily series whose monthly slot needed padding, the
\* daily slot being the caller's values object
C8_Witness ==
    /\ Len(results) = 2
    /\ periodicity = "d"
    /\ Len(dates0) = 3
    /\ Len(results[1].series["M"]) = 1
    /\ SlotValues(results[2], "d") = values0

\* C10 restricted: the date strings of a derived slot are pairwise distinct
\* when no input timestamp carries a non-zero field finer than the declared
\* periodicity.
C10_AlignedDistinct ==
    (Called /\ periodicity \in Codes
       /\ \A i \in 1..Len(dates0) :
             /\ periodicity \in {"d", "M", "Y"} => dates0[i].hour = 0
             /\ periodicity \in {"M", "Y"} => dates0[i].day = 1
             /\ periodicity = "Y" => dates0[i].month = 1) =>
        \A slot \in First.derived :
            \A i, j \in 1..Len(First.series[slot]) :
                i # j => SlotDates(First, slot)[i] # SlotDates(First, slot)[j]

\* C10: in every slot coarser than the input periodicity the date strings
\* that are not sentinels are pairwise distinct.
C10_DerivedDistinct ==
    (Called /\ periodicity \in Codes) =>
        \A slot \in First.derived :
            \A i, j \in 1..Len(First.series[slot]) :
                i # j => SlotDates(First, slot)[i] # SlotDates(First, slot)[j]

----------------------------------------------------------------------------
(* Properties of normalise and the batch loop *)

\* the column of raw_data being processed
RawColumn == raw_data.items[colIdx].column

\* C5: every empty raw cell of a data column is coerced to "0.00", so every
\* value of the table's native slot is in two-decimal form.
C5_EmptyIsFixed2 ==
    pc = "write" =>
        \A i \in 1..Len(RawColumn) :
            /\ RawColumn[i] = "" =>
                   new_data.body[i][DatesAt[PeriodicityOf(raw_data)] + 1] = "0.00"
            /\ new_data.body[i][DatesAt[PeriodicityOf(raw_data)] + 1]
                   \in { Fixed2(c) : c \in Hundredths }

\* a date cell that is neither a full ISO timestamp, nor a 4-character year,
\* nor a 7-character year-month
Malformed(d) ==
    /\ ~\E e \in IsoCellTable : e.text = d
    /\ ~\E e \in YearTable : e.text = d
    /\ ~\E e \in YearMonthTable : e.text = d

\* the date column has been extracted, or normalise has been left
PastExtractTime == pc \in {"column", "write", "rows", "for", "exit", "crashed"}

\* C6: if any cell of the date column is malformed, normalise ends with a
\* value error and has written no output file of that file, whichever row
\* holds the cell.
C6_MalformedAborts ==
    (/\ \E r \in 1..Len(current.datecells) : Malformed(current.datecells[r])
     /\ PastExtractTime
     /\ ~interrupted) =>
        (pc = "crashed" /\ error = "ValueError" /\ written = <<>>)

\* C6 restricted to the rows the loader appends: a malformed date cell in a
\* data row after the first ends normalise with a value error before any
\* output is written.
C6_MalformedAfterFirstRow ==
    (/\ \E r \in 2..Len(current.datecells) : Malformed(current.datecells[r])
     /\ PastExtractTime
     /\ ~interrupted) =>
        (pc = "crashed" /\ error = "ValueError" /\ written = <<>>)

\* C9: for a file with n data rows the series has n pairs, each output table
\* has n body rows, its first row is the first data row of the file, and the
\* row count in its name is n.
C9_EveryRowLoaded ==
    /\ pc \in {"column", "write", "rows"} => Len(object_dates) = current.nrows
    /\ \A w \in 1..Len(written) :
          /\ written[w].closed => Len(written[w].rows) = 1 + current.nrows
          /\ \E i \in 1..Len(Tags) :
                written[w].name = Pad6(current.nrows) \o "__" \o Tags[i] \o ".csv"
          /\ (written[w].closed /\ current.nrows > 0) =>
                written[w].rows[2][DatesAt[current.periodicity]] =
                    Render(<< ParseDate(current.datecells[1]).datetime >>,
                           current.periodicity)[1]

\* C7 as stated: a file being processed when the interrupt arrives is
\* processed to completion before the batch stops, so an interrupt never
\* leaves a file with only some of its column outputs written: once the
\* batch has stopped, a file with an output file written has one for every
\* data column.
C7_FileCompleted ==
    (interrupted /\ pc = "stopped" /\ Len(written) > 0) =>
        /\ Len(written) = current.ncols
        /\ \A w \in 1..Len(written) : written[w].closed

\* C7 amended: when a user interrupt arrives while a file is being processed,
\* the processing of that file is abandoned where it is: what has been written
\* of its output files stays as it is, nothing more is written, and the batch
\* stops with no later file being started.
C7_InterruptAbandons ==
    [][interrupted' => (/\ written' = written
                        /\ fileIdx' = fileIdx
                        /\ current' = current
                        /\ pc' \in {"stopped", "crashed"})]_vars

\* an interrupt has stopped the batch in the first file, which has two data
\* columns, after the first column's file was written and before the second
\* was opened
C7_Witness ==
    /\ interrupted
    /\ pc = "stopped"
    /\ current.ncols = 2
    /\ Len(written) = 1
    /\ written[1].closed
    /\ Len(written[1].rows) = 3
    /\ fileIdx = 1

====
